---- MODULE Spec2Model ----
(***************************************************************************)
(* Model of ckanext-gwexplorer: the two actions show_dsl_metadata and      *)
(* dsl_query_data (actions.py) and the view predicate can_view (plugin.py).*)
(*                                                                         *)
(* The extension keeps no state between calls (the process-wide DSLService *)
(* instance holds only the static exclusion list), so a behaviour is one   *)
(* call: Init is the loaded plugin, each action is one whole handler call  *)
(* with its inputs (the data dict, and the outcome of every collaborator   *)
(* the handler calls: host configuration, check_access, the pygwalker      *)
(* connector and parser, datastore_search, the JSON encoder) drawn from    *)
(* bounded sets.  The order in which a handler reaches its collaborators   *)
(* is recorded in `trace`.                                                 *)
(***************************************************************************)
EXTENDS Integers, Sequences, FiniteSets, TLC

VARIABLES call, data_dict, env, response, trace

vars == <<call, data_dict, env, response, trace>>

(***************************************************************************)
(* Bounds                                                                  *)
(***************************************************************************)
\* longest list of columns the parser reports in raw_fields
MaxFields == 2
\* longest list of fields datastore_search reports
MaxSearchFields == 1
\* longest list of rows get_datas_by_payload returns
MaxRows == 1
\* most characters a url has before or after the datastore-only marker
MaxPad == 1

(***************************************************************************)
(* Python values.  A value carries its type, so that None, the empty       *)
(* string, a string, a boolean and a dict stay distinct; a dict is a       *)
(* function whose domain is the set of its keys.                           *)
(***************************************************************************)
PyNone == [t |-> "NoneType"]
PyStr(s) == [t |-> "str", v |-> s]
PyBool(b) == [t |-> "bool", v |-> b]
PyDict(d) == [t |-> "dict", v |-> d]
PyList(l) == [t |-> "list", v |-> l]

EmptyDict == [k \in {} |-> PyNone]

\* dict.get(key, default)
Get(d, key, default) == IF key \in DOMAIN d THEN d[key] ELSE default

\* Python truth value of x (`not x` is its negation)
Truthy(x) ==
    CASE x.t = "NoneType" -> FALSE
      [] x.t = "str" -> Len(x.v) > 0
      [] x.t = "bool" -> x.v
      [] x.t = "dict" -> DOMAIN x.v # {}
      [] x.t = "list" -> Len(x.v) > 0

\* membership in a Python list
InList(x, l) == \E i \in 1..Len(l) : l[i] = x

\* A string whose characters the code looks at (sort, url, format) is the
\* sequence of its characters; an identifier the code only passes on is a
\* plain string.
UpperCase == <<"A", "B", "C", "D", "E", "F", "G", "H", "I", "J", "K", "L", "M",
               "N", "O", "P", "Q", "R", "S", "T", "U", "V", "W", "X", "Y", "Z">>
LowerCase == <<"a", "b", "c", "d", "e", "f", "g", "h", "i", "j", "k", "l", "m",
               "n", "o", "p", "q", "r", "s", "t", "u", "v", "w", "x", "y", "z">>

\* str.lower()
lower(s) ==
    [i \in 1..Len(s) |->
        IF \E n \in 1..26 : UpperCase[n] = s[i]
        THEN LowerCase[CHOOSE n \in 1..26 : UpperCase[n] = s[i]]
        ELSE s[i]]

\* sub in s, for strings
Contains(sub, s) ==
    \E i \in 0..(Len(s) - Len(sub)) : SubSeq(s, i + 1, i + Len(sub)) = sub

(***************************************************************************)
(* Module constants (actions.py:11)                                        *)
(***************************************************************************)
COLUMNS_TO_EXCLUDE == <<"_id", "id", "_full_text">>

\* Variant: the exclusion list without "id".
columns_to_exclude_without_id == <<"_id", "_full_text">>

\* DSLService.__init__: self.columns_to_exclude
columns_to_exclude == COLUMNS_TO_EXCLUDE

(***************************************************************************)
(* Outcomes of calls into the host and into pygwalker                      *)
(***************************************************************************)
Ok(value) == [raised |-> FALSE, value |-> value]
Raised(msg) == [raised |-> TRUE, msg |-> msg]

\* a returned result / an exception leaving the endpoint
Return(body) == [kind |-> "return", body |-> body]
Raise(exc, msg) == [kind |-> "raise", exc |-> exc, msg |-> msg]
Pending == [kind |-> "pending"]

\* one entry of the trace: a collaborator was called for resource `id`
Ev(name, id) == [ev |-> name, id |-> id]

(***************************************************************************)
(* DSLService._create_error_response                                       *)
(***************************************************************************)
_create_error_response(field, message) ==
    [detail |-> << [loc |-> <<"query", field>>,
                    msg |-> message,
                    type |-> "value_error.missing"] >>]

(***************************************************************************)
(* DSLService._get_table_parser: the parser, or DatabaseConnectionError    *)
(***************************************************************************)
_get_table_parser(table_name, e) ==
    IF e.read_url = ""
    THEN [raised |-> TRUE, exc |-> "DatabaseConnectionError",
          msg |-> "Database connection failed: " \o "Database read URL not configured",
          trace |-> <<>>]
    ELSE IF e.Connector.raised
    THEN [raised |-> TRUE, exc |-> "DatabaseConnectionError",
          msg |-> "Database connection failed: " \o e.Connector.msg,
          trace |-> <<Ev("Connector", table_name)>>]
    ELSE IF e.get_parser.raised
    THEN [raised |-> TRUE, exc |-> "DatabaseConnectionError",
          msg |-> "Database connection failed: " \o e.get_parser.msg,
          trace |-> <<Ev("Connector", table_name), Ev("get_parser", table_name)>>]
    ELSE [raised |-> FALSE,
          trace |-> <<Ev("Connector", table_name), Ev("get_parser", table_name)>>]

(***************************************************************************)
(* DSLService._get_name_title_map                                          *)
(***************************************************************************)
\* the loop over the fields: a later field overwrites an earlier one
RECURSIVE NameMapLoop(_, _)
NameMapLoop(fields, name_map) ==
    IF fields = <<>> THEN name_map
    ELSE LET field == Head(fields)
             field_id == field["id"]
             label == Get(Get(field, "info", EmptyDict), "label", field_id)
         IN  NameMapLoop(Tail(fields),
                         IF ~InList(field_id, columns_to_exclude)
                         THEN (field_id :> label) @@ name_map
                         ELSE name_map)

_get_name_title_map(table_name, e) ==
    [value |-> IF e.datastore_search.raised THEN EmptyDict
               ELSE NameMapLoop(e.datastore_search.value, EmptyDict),
     trace |-> <<Ev("datastore_search", table_name)>>]

(***************************************************************************)
(* sorted(filtered_result, key=lambda x: x["name"]): a stable sort in      *)
(* code point order                                                        *)
(***************************************************************************)
CodePointOrder == <<"", "Zed", "_full_text", "_id", "a", "b", "id">>

Rank(s) == CHOOSE i \in 1..Len(CodePointOrder) : CodePointOrder[i] = s

RECURSIVE InsertByName(_, _)
InsertByName(x, l) ==
    IF l = <<>> THEN <<x>>
    ELSE IF Rank(Head(l)["name"]) <= Rank(x["name"])
         THEN <<Head(l)>> \o InsertByName(x, Tail(l))
         ELSE <<x>> \o l

RECURSIVE sorted(_)
sorted(l) ==
    IF l = <<>> THEN <<>>
    ELSE InsertByName(l[Len(l)], sorted(SubSeq(l, 1, Len(l) - 1)))

(***************************************************************************)
(* DSLService.get_table_metadata                                           *)
(***************************************************************************)
RECURSIVE FilterFields(_, _)
FilterFields(result, name_title_map) ==
    IF result = <<>> THEN <<>>
    ELSE LET field == Head(result)
             rest == FilterFields(Tail(result), name_title_map)
         IN  IF ~InList(field["fid"], columns_to_exclude)
             THEN <<("name" :> Get(name_title_map, field["fid"], field["fid"])) @@ field>>
                  \o rest
             ELSE rest

get_table_metadata(table_name, sort, e) ==
    LET table_parser == _get_table_parser(table_name, e)
        name_title_map == _get_name_title_map(table_name, e)
        filtered_result == FilterFields(e.raw_fields.value, name_title_map.value)
    IN  IF table_parser.raised
        THEN [raised |-> FALSE, value |-> <<>>, trace |-> table_parser.trace]
        ELSE IF e.raw_fields.raised
        THEN [raised |-> FALSE, value |-> <<>>,
              trace |-> table_parser.trace \o name_title_map.trace
                        \o <<Ev("raw_fields", table_name)>>]
        ELSE [raised |-> FALSE,
              value |-> IF sort THEN sorted(filtered_result) ELSE filtered_result,
              trace |-> table_parser.trace \o name_title_map.trace
                        \o <<Ev("raw_fields", table_name)>>]

(***************************************************************************)
(* DSLService.show_metadata                                                *)
(***************************************************************************)
show_metadata(resource_id, sort, e) ==
    IF ~Truthy(resource_id)
    THEN [response |-> Return(_create_error_response("resourceID", "field required")),
          trace |-> <<>>]
    ELSE LET fields_meta == get_table_metadata(resource_id, sort, e)
         IN  IF ~fields_meta.raised
             THEN [response |-> Return([success |-> TRUE,
                                        schema |-> fields_meta.value,
                                        name |-> resource_id,
                                        resource_id |-> resource_id,
                                        message |-> ""]),
                   trace |-> fields_meta.trace]
             ELSE [response |-> Return([success |-> FALSE,
                                        schema |-> <<>>,
                                        name |-> resource_id,
                                        resource_id |-> resource_id,
                                        message |-> "Error fetching metadata: "
                                                    \o fields_meta.msg]),
                   trace |-> fields_meta.trace]

(***************************************************************************)
(* tk.check_access("resource_show", context, {"id": resource_id}): returns *)
(* or raises NotAuthorized, as the host decides                            *)
(***************************************************************************)
check_access(resource_id, e) ==
    [raised |-> e.check_access # "ok",
     trace |-> <<Ev(IF e.check_access = "ok" THEN "check_access_ok"
                    ELSE "check_access_denied", resource_id)>>]

(***************************************************************************)
(* show_dsl_metadata                                                       *)
(***************************************************************************)
show_dsl_metadata_result(d, e) ==
    LET resource_id == Get(d, "resourceID", PyNone)
        access == check_access(resource_id, e)
        sort_value == Get(d, "sort", PyStr(<<"f", "a", "l", "s", "e">>))
        served == show_metadata(resource_id,
                                lower(sort_value.v) = <<"t", "r", "u", "e">>, e)
    IN  IF ~Truthy(resource_id)
        THEN [response |-> Raise("HTTPException", "400 resourceID field is required"),
              trace |-> <<>>]
        ELSE IF access.raised
        THEN [response |-> Raise("NotAuthorized", "access denied"),
              trace |-> access.trace]
        ELSE IF sort_value.t # "str"
        THEN [response |-> Raise("AttributeError", "object has no attribute 'lower'"),
              trace |-> access.trace]
        ELSE [response |-> served.response,
              trace |-> access.trace \o served.trace]

(***************************************************************************)
(* json.loads(json.dumps(filtered_response, cls=DataFrameEncoder)): keys   *)
(* are kept, a value JSON has no type for comes back as the string the     *)
(* encoder made of it                                                      *)
(***************************************************************************)
JsonValue(v) == IF v.t = "datetime" THEN PyStr(v.v) ELSE v

JsonRoundTrip(rows) ==
    [i \in 1..Len(rows) |-> [k \in DOMAIN rows[i] |-> JsonValue(rows[i][k])]]

(***************************************************************************)
(* DSLService.get_data_from_payload: the rows, or DSLQueryError            *)
(***************************************************************************)
FilterRow(row) ==
    [key \in {k \in DOMAIN row : ~InList(k, columns_to_exclude)} |-> row[key]]

FilterRows(result) == [i \in 1..Len(result) |-> FilterRow(result[i])]

\* Variant: a failure is logged and an empty list returned, as
\* get_table_metadata does, instead of raising DSLQueryError.
get_data_from_payload_swallowing(table_name, payload, e) ==
    LET table_parser == _get_table_parser(table_name, e)
        queried == table_parser.trace \o <<Ev("get_datas_by_payload", table_name)>>
    IN  IF table_parser.raised
        THEN [raised |-> FALSE, value |-> <<>>, trace |-> table_parser.trace]
        ELSE IF e.get_datas_by_payload.raised \/ e.json_dumps.raised
        THEN [raised |-> FALSE, value |-> <<>>, trace |-> queried]
        ELSE [raised |-> FALSE,
              value |-> JsonRoundTrip(FilterRows(e.get_datas_by_payload.value)),
              trace |-> queried]

get_data_from_payload(table_name, payload, e) ==
    LET table_parser == _get_table_parser(table_name, e)
        queried == table_parser.trace \o <<Ev("get_datas_by_payload", table_name)>>
        filtered_response == FilterRows(e.get_datas_by_payload.value)
    IN  IF table_parser.raised
        THEN [raised |-> TRUE, exc |-> "DSLQueryError",
              msg |-> "Query execution failed: " \o table_parser.msg,
              trace |-> table_parser.trace]
        ELSE IF e.get_datas_by_payload.raised
        THEN [raised |-> TRUE, exc |-> "DSLQueryError",
              msg |-> "Query execution failed: " \o e.get_datas_by_payload.msg,
              trace |-> queried]
        ELSE IF e.json_dumps.raised
        THEN [raised |-> TRUE, exc |-> "DSLQueryError",
              msg |-> "Query execution failed: " \o e.json_dumps.msg,
              trace |-> queried]
        ELSE [raised |-> FALSE, value |-> JsonRoundTrip(filtered_response),
              trace |-> queried]

(***************************************************************************)
(* DSLService.query_data                                                   *)
(***************************************************************************)
\* Variant: the payload is not checked before the query is run.
query_data_payload_unchecked(resource_id, payload, e) ==
    IF ~Truthy(resource_id)
    THEN [response |-> Return(_create_error_response("resourceID", "field required")),
          trace |-> <<>>]
    ELSE LET data == get_data_from_payload(resource_id, payload, e)
         IN  IF ~data.raised
             THEN [response |-> Return([success |-> TRUE,
                                        data |-> PyList(data.value),
                                        message |-> ""]),
                   trace |-> data.trace]
             ELSE [response |-> Return([success |-> FALSE,
                                        data |-> PyNone,
                                        message |-> data.msg]),
                   trace |-> data.trace]

\* Variant: a failed query is answered in the shape of a validation error.
query_data_failure_as_detail(resource_id, payload, e) ==
    IF ~Truthy(resource_id)
    THEN [response |-> Return(_create_error_response("resourceID", "field required")),
          trace |-> <<>>]
    ELSE IF ~Truthy(payload)
    THEN [response |-> Return(_create_error_response("payload", "payload field required")),
          trace |-> <<>>]
    ELSE LET data == get_data_from_payload(resource_id, payload, e)
         IN  IF ~data.raised
             THEN [response |-> Return([success |-> TRUE,
                                        data |-> PyList(data.value),
                                        message |-> ""]),
                   trace |-> data.trace]
             ELSE [response |-> Return(_create_error_response("payload", data.msg)),
                   trace |-> data.trace]

query_data(resource_id, payload, e) ==
    IF ~Truthy(resource_id)
    THEN [response |-> Return(_create_error_response("resourceID", "field required")),
          trace |-> <<>>]
    ELSE IF ~Truthy(payload)
    THEN [response |-> Return(_create_error_response("payload", "payload field required")),
          trace |-> <<>>]
    ELSE LET data == get_data_from_payload(resource_id, payload, e)
         IN  IF ~data.raised
             THEN [response |-> Return([success |-> TRUE,
                                        data |-> PyList(data.value),
                                        message |-> ""]),
                   trace |-> data.trace]
             ELSE IF data.exc = "DSLQueryError"
             THEN [response |-> Return([success |-> FALSE,
                                        data |-> PyNone,
                                        message |-> data.msg]),
                   trace |-> data.trace]
             ELSE [response |-> Return([success |-> FALSE,
                                        data |-> PyNone,
                                        message |-> "Unexpected error: " \o data.msg]),
                   trace |-> data.trace]

(***************************************************************************)
(* dsl_query_data                                                          *)
(***************************************************************************)
\* Variant: the query is served first and access checked afterwards.
dsl_query_data_result_check_last(d, e) ==
    LET resource_id == Get(d, "resourceID", PyNone)
        payload == Get(d, "payload", PyNone)
        served == query_data(resource_id, payload, e)
        access == check_access(resource_id, e)
    IN  IF access.raised
        THEN [response |-> Raise("NotAuthorized", "access denied"),
              trace |-> served.trace \o access.trace]
        ELSE [response |-> served.response,
              trace |-> served.trace \o access.trace]

dsl_query_data_result(d, e) ==
    LET resource_id == Get(d, "resourceID", PyNone)
        access == check_access(resource_id, e)
        payload == Get(d, "payload", PyNone)
        served == query_data(resource_id, payload, e)
    IN  IF access.raised
        THEN [response |-> Raise("NotAuthorized", "access denied"),
              trace |-> access.trace]
        ELSE [response |-> served.response,
              trace |-> access.trace \o served.trace]

(***************************************************************************)
(* GwexplorerPlugin.can_view                                               *)
(***************************************************************************)
DatastoreOnlyMarker ==
    <<"_", "d", "a", "t", "a", "s", "t", "o", "r", "e", "_", "o", "n", "l", "y",
      "_", "r", "e", "s", "o", "u", "r", "c", "e">>

ViewableFormats == << <<"c", "s", "v">>, <<"x", "l", "s">>,
                      <<"x", "l", "s", "x">>, <<"t", "s", "v">> >>

\* Variant: the format is compared as written, without lower().
can_view_case_sensitive(d) ==
    LET resource == d["resource"]
        resource_format == Get(resource, "format", PyNone)
    IN  IF \/ Truthy(Get(resource, "datastore_active", PyNone))
           \/ Contains(DatastoreOnlyMarker, Get(resource, "url", PyStr(<<>>)).v)
        THEN TRUE
        ELSE IF Truthy(resource_format)
        THEN InList(resource_format.v, ViewableFormats)
        ELSE FALSE

\* Variant: a resource without a format is viewable.
can_view_without_format(d) ==
    LET resource == d["resource"]
        resource_format == Get(resource, "format", PyNone)
    IN  IF \/ Truthy(Get(resource, "datastore_active", PyNone))
           \/ Contains(DatastoreOnlyMarker, Get(resource, "url", PyStr(<<>>)).v)
        THEN TRUE
        ELSE IF Truthy(resource_format)
        THEN InList(lower(resource_format.v), ViewableFormats)
        ELSE TRUE

can_view(d) ==
    LET resource == d["resource"]
        resource_format == Get(resource, "format", PyNone)
    IN  IF \/ Truthy(Get(resource, "datastore_active", PyNone))
           \/ Contains(DatastoreOnlyMarker, Get(resource, "url", PyStr(<<>>)).v)
        THEN TRUE
        ELSE IF Truthy(resource_format)
        THEN InList(lower(resource_format.v), ViewableFormats)
        ELSE FALSE

(***************************************************************************)
(* Inputs                                                                  *)
(***************************************************************************)
SeqsUpTo(S, n) == UNION {[1..k -> S] : k \in 0..n}

\* column names the datastore may hold: the internal ones and two others
Cols == {"_id", "id", "_full_text", "a", "b"}

ResourceIds == {"r1", "r2"}

\* what a data dict may hold under resourceID (absent is a dict without it)
ResourceIdValues == {PyNone, PyStr("")} \cup {PyStr(r) : r \in ResourceIds}

SortValues == {PyStr(<<"t", "r", "u", "e">>), PyStr(<<"f", "a", "l", "s", "e">>),
               PyStr(<<"T", "r", "u", "e">>), PyBool(TRUE)}

PayloadValues == {PyNone, PyDict(EmptyDict), PyDict([workflow |-> "view"])}

\* the dicts over one optional key
OptKey(key, values) == {EmptyDict} \cup {key :> v : v \in values}

MetadataDicts ==
    {r @@ s : r \in OptKey("resourceID", ResourceIdValues),
              s \in OptKey("sort", SortValues)}

QueryDicts ==
    {r @@ p : r \in OptKey("resourceID", ResourceIdValues),
              p \in OptKey("payload", PayloadValues)}

\* a column as the parser reports it in raw_fields
RawField(c) == [fid |-> c, name |-> c, semanticType |-> "nominal"]

\* a field as datastore_search reports it, with or without a label
SearchFields ==
    {[id |-> c] : c \in Cols}
    \cup {[id |-> c, info |-> [label |-> "Zed"]] : c \in Cols}

CellValues == {[t |-> "int", v |-> "1"], [t |-> "datetime", v |-> "2024-01-01"]}

Rows == UNION {[K -> CellValues] : K \in SUBSET Cols}

\* resources: a url around the marker, a near miss of it, or neither
UrlPads == SeqsUpTo({"/", "x"}, MaxPad)

Urls ==
    {p \o DatastoreOnlyMarker \o q : p \in UrlPads, q \in UrlPads}
    \cup {p \o SubSeq(DatastoreOnlyMarker, 1, Len(DatastoreOnlyMarker) - 1) \o q :
            p \in UrlPads, q \in UrlPads}
    \cup {p \o <<"_", "D">> \o SubSeq(DatastoreOnlyMarker, 3, Len(DatastoreOnlyMarker)) :
            p \in UrlPads}
    \cup {p \o <<"a", ".", "c", "s", "v">> : p \in UrlPads}

Formats ==
    {<<>>, <<"c", "s", "v">>, <<"C", "S", "V">>, <<"C", "s", "v">>,
     <<"x", "l", "s">>, <<"X", "L", "S">>, <<"x", "l", "s", "x">>,
     <<"X", "l", "s", "X">>, <<"t", "s", "v">>, <<"T", "S", "V">>,
     <<"p", "d", "f">>, <<"P", "D", "F">>, <<"j", "s", "o", "n">>,
     <<"c", "s">>, <<"c", "s", "v", "x">>, <<" ", "c", "s", "v">>}

Resources ==
    {a @@ u @@ f @@ n :
        a \in OptKey("datastore_active", {PyBool(TRUE), PyBool(FALSE)}),
        u \in OptKey("url", {PyStr(x) : x \in Urls}),
        f \in OptKey("format", {PyNone} \cup {PyStr(x) : x \in Formats}),
        n \in OptKey("name", {PyStr("rainfall")})}

DefaultEnv ==
    [check_access |-> "ok",
     read_url |-> "postgresql://datastore_ro@db/datastore",
     Connector |-> Ok("conn"),
     get_parser |-> Ok("parser"),
     datastore_search |-> Ok(<<>>),
     raw_fields |-> Ok(<<>>),
     get_datas_by_payload |-> Ok(<<>>),
     json_dumps |-> Ok("json")]

\* the authorization decision, the configuration and the connection
GateEnvs ==
    {[DefaultEnv EXCEPT !.check_access = a, !.read_url = u,
                        !.Connector = c, !.get_parser = g] :
        a \in {"ok", "NotAuthorized"},
        u \in {"", DefaultEnv.read_url},
        c \in {Ok("conn"), Raised("could not connect to server")},
        g \in {Ok("parser"), Raised("unsupported dialect")}}

\* what the datastore holds, once it is reached
MetadataEnvs ==
    {[DefaultEnv EXCEPT !.datastore_search = s, !.raw_fields = f] :
        s \in {Raised("Resource was not found")}
              \cup {Ok(l) : l \in SeqsUpTo(SearchFields, MaxSearchFields)},
        f \in {Raised("relation does not exist")}
              \cup {Ok([i \in 1..Len(l) |-> RawField(l[i])]) :
                        l \in SeqsUpTo(Cols, MaxFields)}}

QueryEnvs ==
    {[DefaultEnv EXCEPT !.get_datas_by_payload = q, !.json_dumps = j] :
        q \in {Raised("syntax error in query")}
              \cup {Ok(l) : l \in SeqsUpTo(Rows, MaxRows)},
        j \in {Ok("json"), Raised("Circular reference detected")}}

(***************************************************************************)
(* The state machine                                                       *)
(***************************************************************************)
Init ==
    /\ call = "none"
    /\ data_dict = EmptyDict
    /\ env = DefaultEnv
    /\ response = Pending
    /\ trace = <<>>

show_dsl_metadata ==
    /\ response.kind = "pending"
    /\ \E d \in MetadataDicts, e \in GateEnvs \cup MetadataEnvs :
         LET r == show_dsl_metadata_result(d, e)
         IN  /\ call' = "show_dsl_metadata"
             /\ data_dict' = d
             /\ env' = e
             /\ response' = r.response
             /\ trace' = r.trace

dsl_query_data ==
    /\ response.kind = "pending"
    /\ \E d \in QueryDicts, e \in GateEnvs \cup QueryEnvs :
         LET r == dsl_query_data_result(d, e)
         IN  /\ call' = "dsl_query_data"
             /\ data_dict' = d
             /\ env' = e
             /\ response' = r.response
             /\ trace' = r.trace

can_view_call ==
    /\ response.kind = "pending"
    /\ \E r \in Resources :
         /\ call' = "can_view"
         /\ data_dict' = [resource |-> r]
         /\ env' = DefaultEnv
         /\ response' = Return(can_view([resource |-> r]))
         /\ trace' = <<>>

Next == show_dsl_metadata \/ dsl_query_data \/ can_view_call

Spec == Init /\ [][Next]_vars

(***************************************************************************)
(* Properties                                                              *)
(***************************************************************************)
IsEndpointCall == call \in {"show_dsl_metadata", "dsl_query_data"}
RequestResourceId == Get(data_dict, "resourceID", PyNone)
RequestPayload == Get(data_dict, "payload", PyNone)
Returned == response.kind = "return"
ExcludedColumns == {"_id", "id", "_full_text"}
DatastoreEvents == {"Connector", "get_parser", "datastore_search", "raw_fields",
                    "get_datas_by_payload"}
TraceEvents == {trace[i].ev : i \in 1..Len(trace)}
ParserFailed == \/ env.read_url = ""
                \/ env.Connector.raised
                \/ env.get_parser.raised

MissingFieldEnvelope(field, msg) ==
    [detail |-> << [loc |-> <<"query", field>>, msg |-> msg,
                    type |-> "value_error.missing"] >>]

\* C1: a call to either endpoint without a resource identifier, when the host
\* lets it through, returns the missing-field envelope for resourceID.
C1_MissingResourceIdEnvelope ==
    (/\ IsEndpointCall
     /\ ~Truthy(RequestResourceId)
     /\ env.check_access = "ok")
    => response = Return(MissingFieldEnvelope("resourceID", "field required"))

\* C2 as stated: every result dsl_query_data returns for a data dict without
\* a payload is the missing-field envelope located at [query, payload], and
\* neither the parser nor the query was reached.
C2_MissingPayloadEnvelope_Original ==
    (/\ call = "dsl_query_data"
     /\ ~Truthy(RequestPayload)
     /\ Returned)
    => /\ DOMAIN response.body = {"detail"}
       /\ Len(response.body.detail) = 1
       /\ response.body.detail[1].type = "value_error.missing"
       /\ response.body.detail[1].loc = <<"query", "payload">>
       /\ TraceEvents \cap DatastoreEvents = {}

\* C2 amended: without a payload the result returned is a missing-field
\* envelope and neither the parser nor the query was reached; it is located
\* at [query, payload] when the resource identifier is present, and at
\* [query, resourceID] when that is missing too.
C2_MissingPayloadEnvelope ==
    (/\ call = "dsl_query_data"
     /\ ~Truthy(RequestPayload)
     /\ Returned)
    => /\ response.body =
            IF Truthy(RequestResourceId)
            THEN MissingFieldEnvelope("payload", "payload field required")
            ELSE MissingFieldEnvelope("resourceID", "field required")
       /\ TraceEvents \cap DatastoreEvents = {}

C2_Witness ==
    /\ call = "dsl_query_data"
    /\ Truthy(RequestResourceId)
    /\ "payload" \in DOMAIN data_dict
    /\ data_dict["payload"] = PyDict(EmptyDict)
    /\ response = Return(MissingFieldEnvelope("payload", "payload field required"))

\* C3: no schema entry has an excluded fid, no returned row has an excluded
\* key, and the field-label map has no excluded key.
C3_NoExcludedColumn ==
    /\ (call = "show_dsl_metadata" /\ Returned /\ "schema" \in DOMAIN response.body)
       => /\ \A i \in 1..Len(response.body.schema) :
                response.body.schema[i]["fid"] \notin ExcludedColumns
          /\ DOMAIN _get_name_title_map(RequestResourceId, env).value
                \cap ExcludedColumns = {}
    /\ (call = "dsl_query_data" /\ Returned /\ "data" \in DOMAIN response.body
            /\ response.body.data.t = "list")
       => \A i \in 1..Len(response.body.data.v) :
                DOMAIN response.body.data.v[i] \cap ExcludedColumns = {}

C3_Witness ==
    /\ call = "show_dsl_metadata"
    /\ Returned
    /\ ~env.raw_fields.raised
    /\ \E i \in 1..Len(env.raw_fields.value) :
            env.raw_fields.value[i]["fid"] \in ExcludedColumns
    /\ ~env.datastore_search.raised
    /\ \E i \in 1..Len(env.datastore_search.value) :
            env.datastore_search.value[i]["id"] \in ExcludedColumns
    /\ Len(response.body.schema) > 0

\* C4: when an internal step of the metadata endpoint fails, the envelope
\* returned has success = false and carries the exception text.
C4_MetadataFailureReported ==
    (/\ call = "show_dsl_metadata"
     /\ Truthy(RequestResourceId)
     /\ Returned
     /\ (ParserFailed \/ env.raw_fields.raised))
    => /\ response.body.success = FALSE
       /\ response.body.message # ""

\* C5: the only fault that leaves an endpoint is the access-denied abort of
\* the host's authorization check.
C5_OnlyAccessDeniedPropagates ==
    (IsEndpointCall /\ response.kind = "raise") => response.exc = "NotAuthorized"

\* C6 as stated: every dictionary an endpoint returns has a boolean success key.
C6_SuccessKeyAlways_Original ==
    (IsEndpointCall /\ Returned)
    => /\ "success" \in DOMAIN response.body
       /\ response.body.success \in BOOLEAN

\* C6 amended: every dictionary an endpoint returns on the success path or on
\* the internal-failure path has a boolean success key; the one returned for
\* a missing input field has the single key detail.
C6_SuccessKeyUnlessValidation ==
    (IsEndpointCall /\ Returned)
    => IF /\ Truthy(RequestResourceId)
          /\ (call = "dsl_query_data" => Truthy(RequestPayload))
       THEN /\ "success" \in DOMAIN response.body
            /\ response.body.success \in BOOLEAN
       ELSE DOMAIN response.body = {"detail"}

C6_Witness ==
    /\ call = "dsl_query_data"
    /\ Returned
    /\ "success" \in DOMAIN response.body
    /\ response.body.success = TRUE
    /\ Len(response.body.data.v) > 0

\* C7: with a resource identifier and a payload, a failure of the parser, of
\* the query or of the encoding is returned as success = false, data = None
\* and a non-empty message, never raised; success = true comes with an empty
\* message and only when all three completed.
QueryFailed == \/ ParserFailed
               \/ env.get_datas_by_payload.raised
               \/ env.json_dumps.raised

C7_QueryFailureReported ==
    (/\ call = "dsl_query_data"
     /\ Truthy(RequestResourceId)
     /\ Truthy(RequestPayload)
     /\ env.check_access = "ok")
    => /\ Returned
       /\ DOMAIN response.body = {"success", "data", "message"}
       /\ QueryFailed => /\ response.body.success = FALSE
                         /\ response.body.data.t = "NoneType"
                         /\ response.body.message # ""
       /\ response.body.success = TRUE => /\ ~QueryFailed
                                          /\ response.body.message = ""

C7_Witness ==
    /\ call = "dsl_query_data"
    /\ Truthy(RequestResourceId)
    /\ Truthy(RequestPayload)
    /\ env.check_access = "ok"
    /\ ~ParserFailed
    /\ env.json_dumps.raised
    /\ Returned
    /\ response.body.success = FALSE

\* the resource can_view was asked about
ViewedResource == data_dict["resource"]
DatastoreActive == Truthy(Get(ViewedResource, "datastore_active", PyNone))
HasMarkerUrl ==
    /\ "url" \in DOMAIN ViewedResource
    /\ Contains(DatastoreOnlyMarker, ViewedResource["url"].v)

\* str.upper(), to compare a format with the whitelist whatever its case
upper(s) ==
    [i \in 1..Len(s) |->
        IF \E n \in 1..26 : LowerCase[n] = s[i]
        THEN UpperCase[CHOOSE n \in 1..26 : LowerCase[n] = s[i]]
        ELSE s[i]]

HasViewableFormat ==
    /\ "format" \in DOMAIN ViewedResource
    /\ ViewedResource["format"].t = "str"
    /\ upper(ViewedResource["format"].v) \in
            {<<"C", "S", "V">>, <<"X", "L", "S">>, <<"X", "L", "S", "X">>,
             <<"T", "S", "V">>}

\* C8 as stated: can_view is false for a resource without datastore
\* activation whose format is absent or not whitelisted, and true for a
\* resource with datastore_active true.
C8_ViewPredicate_Original ==
    call = "can_view"
    => /\ (~DatastoreActive /\ ~HasViewableFormat) => response.body = FALSE
       /\ DatastoreActive => response.body = TRUE

\* C8 amended: can_view is false for a resource without datastore activation
\* whose url does not contain the marker and whose format is absent or not
\* whitelisted, and true for a resource with datastore_active true.
C8_ViewPredicate ==
    call = "can_view"
    => /\ (~DatastoreActive /\ ~HasMarkerUrl /\ ~HasViewableFormat)
            => response.body = FALSE
       /\ DatastoreActive => response.body = TRUE

C8_Witness ==
    /\ call = "can_view"
    /\ "datastore_active" \in DOMAIN ViewedResource
    /\ ~DatastoreActive
    /\ "url" \in DOMAIN ViewedResource
    /\ ~HasMarkerUrl
    /\ "format" \in DOMAIN ViewedResource
    /\ ViewedResource["format"] = PyStr(<<"P", "D", "F">>)
    /\ response.body = FALSE

\* C9: can_view is true exactly when the resource is datastore-backed, or its
\* url contains the marker, or its format is whitelisted whatever its case.
C9_ViewPredicateExact ==
    call = "can_view"
    => /\ Returned
       /\ response.body = (DatastoreActive \/ HasMarkerUrl \/ HasViewableFormat)
       /\ trace = <<>>

C9_Witness ==
    /\ call = "can_view"
    /\ ~DatastoreActive
    /\ ~HasMarkerUrl
    /\ "format" \in DOMAIN ViewedResource
    /\ ViewedResource["format"] = PyStr(<<"X", "l", "s", "X">>)
    /\ response.body = TRUE

\* C10: every datastore access in a call comes after the authorization check
\* for the same resource identifier has succeeded in that call, and a call
\* whose check denies access makes no datastore access.
C10_CheckBeforeDatastore ==
    IsEndpointCall
    => /\ \A i \in 1..Len(trace) :
            trace[i].ev \in DatastoreEvents
            => \E j \in 1..(i - 1) : /\ trace[j].ev = "check_access_ok"
                                     /\ trace[j].id = trace[i].id
       /\ "check_access_denied" \in TraceEvents
            => /\ TraceEvents \cap DatastoreEvents = {}
               /\ response.kind = "raise"

C10_Witness ==
    /\ call = "dsl_query_data"
    /\ Len(trace) = 4
    /\ trace[1].ev = "check_access_ok"
    /\ trace[4].ev = "get_datas_by_payload"
    /\ trace[4].id = RequestResourceId

====
